---- MODULE Spec2Model ----
(***************************************************************************)
(* NewStock (models/stock.go): the fan-out of twelve goroutines that fill  *)
(* one Stock, the join on the WaitGroup, the valuation (RightPrice) chain  *)
(* and the PEG computation.                                                *)
(*                                                                         *)
(* float64 values are modelled as exact rationals extended with NaN, +Inf  *)
(* and -Inf (IEEE-754 rules for the special values; rounding error and     *)
(* negative zero are not modelled).                                        *)
(***************************************************************************)
EXTENDS Integers, Sequences, FiniteSets, TLC

(***************************************************************************)
(* float64                                                                 *)
(***************************************************************************)
Abs(i) == IF i < 0 THEN -i ELSE i

RECURSIVE Gcd(_, _)
Gcd(a, b) == IF b = 0 THEN a ELSE Gcd(b, a % b)

\* the finite value n/d (d # 0), in lowest terms with a positive denominator
Q(n, d) ==
    LET g == Gcd(Abs(n), Abs(d))
        sg == IF d < 0 THEN -1 ELSE 1
    IN [k |-> "fin", n |-> sg * (n \div g), d |-> sg * (d \div g)]

F(i) == Q(i, 1)
NaN == [k |-> "nan", n |-> 0, d |-> 1]
PInf == [k |-> "inf", n |-> 1, d |-> 1]
NInf == [k |-> "inf", n |-> -1, d |-> 1]

IsNaN(x) == x.k = "nan"
IsInf(x) == x.k = "inf"
IsFin(x) == x.k = "fin"
Sgn(x) == IF x.n > 0 THEN 1 ELSE IF x.n < 0 THEN -1 ELSE 0
InfOf(sign) == IF sign > 0 THEN PInf ELSE NInf

FNeg(x) == [x EXCEPT !.n = -x.n]

FAdd(x, y) ==
    IF IsNaN(x) \/ IsNaN(y) THEN NaN
    ELSE IF IsInf(x) /\ IsInf(y) THEN (IF x.n = y.n THEN x ELSE NaN)
    ELSE IF IsInf(x) THEN x
    ELSE IF IsInf(y) THEN y
    ELSE Q(x.n * y.d + y.n * x.d, x.d * y.d)

FSub(x, y) == FAdd(x, FNeg(y))

FMul(x, y) ==
    IF IsNaN(x) \/ IsNaN(y) THEN NaN
    ELSE IF IsInf(x) \/ IsInf(y)
         THEN (IF Sgn(x) = 0 \/ Sgn(y) = 0 THEN NaN ELSE InfOf(Sgn(x) * Sgn(y)))
    ELSE Q(x.n * y.n, x.d * y.d)

FDiv(x, y) ==
    IF IsNaN(x) \/ IsNaN(y) THEN NaN
    ELSE IF IsInf(x) /\ IsInf(y) THEN NaN
    ELSE IF IsInf(x) THEN InfOf(Sgn(x) * (IF Sgn(y) < 0 THEN -1 ELSE 1))
    ELSE IF IsInf(y) THEN F(0)
    ELSE IF y.n = 0 THEN (IF x.n = 0 THEN NaN ELSE InfOf(Sgn(x)))
    ELSE Q(x.n * y.d, x.d * y.n)

\* comparisons: every comparison with NaN is false
FLt(x, y) ==
    /\ ~IsNaN(x) /\ ~IsNaN(y)
    /\ IF IsInf(x) /\ IsInf(y) THEN x.n < y.n
       ELSE IF IsInf(x) THEN x.n < 0
       ELSE IF IsInf(y) THEN y.n > 0
       ELSE x.n * y.d < y.n * x.d
FGt(x, y) == FLt(y, x)
FEq(x, y) == ~IsNaN(x) /\ ~IsNaN(y) /\ x = y
FLe(x, y) == FLt(x, y) \/ FEq(x, y)
FGe(x, y) == FLe(y, x)

FMax(x, y) == IF IsNaN(x) \/ IsNaN(y) THEN NaN ELSE IF FGt(x, y) THEN x ELSE y
FMin(x, y) == IF IsNaN(x) \/ IsNaN(y) THEN NaN ELSE IF FLt(x, y) THEN x ELSE y

RECURSIVE FSum(_)
FSum(seq) == IF seq = <<>> THEN F(0) ELSE FAdd(FSum(SubSeq(seq, 1, Len(seq) - 1)), seq[Len(seq)])

(***************************************************************************)
(* eastmoney.HistoricalFinaMainData, HistoricalPEList and their helpers    *)
(* (datacenter/eastmoney, outside the sources at hand; modelled from the   *)
(* way NewStock uses them).  A history is a sequence of reports, newest    *)
(* first.                                                                  *)
(***************************************************************************)
\* time.Now().Year()
ThisYear == 2026

FinaReportTypeYear == "Y"
FinaReportTypeQuarter == "Q"

\* the nil *FinaMainData
NilReport ==
    [ReportYear |-> 0, ReportType |-> "nil", Epsjb |-> F(0), Totaloperaterevetz |-> F(0),
     Roejq |-> F(0), Netprofit |-> F(0), Zcfzl |-> F(0)]

Report(year, type, eps, rev, roe, profit, debt) ==
    [ReportYear |-> year, ReportType |-> type, Epsjb |-> eps, Totaloperaterevetz |-> rev,
     Roejq |-> roe, Netprofit |-> profit, Zcfzl |-> debt]

SetMin(S) == CHOOSE x \in S : \A y \in S : x <= y

FilterByReportType(hf, type) == SelectSeq(hf, LAMBDA r : r.ReportType = type)
FilterByReportYear(hf, year) == SelectSeq(hf, LAMBDA r : r.ReportYear = year)

\* GetReport: the report of the given year and type, nil when there is none
GetReport(hf, year, type) ==
    LET idx == {i \in 1..Len(hf) : hf[i].ReportYear = year /\ hf[i].ReportType = type}
    IN IF idx = {} THEN NilReport ELSE hf[SetMin(idx)]

ValueOf(r, valueType) ==
    CASE valueType = "EPS" -> r.Epsjb
      [] valueType = "ROE" -> r.Roejq
      [] valueType = "NETPROFIT" -> r.Netprofit

\* ValueList: the values of the (at most count) newest reports of the type
ValueList(hf, valueType, count, type) ==
    LET data == FilterByReportType(hf, type)
        n == IF count > 0 /\ count < Len(data) THEN count ELSE Len(data)
    IN [i \in 1..n |-> ValueOf(data[i], valueType)]

\* GetAvgRevenueIncreasingRatioByYear: mean revenue growth of the year's
\* reports, 0 when the year has none
GetAvgRevenueIncreasingRatioByYear(hf, year) ==
    LET data == FilterByReportYear(hf, year)
    IN IF Len(data) = 0 THEN F(0)
       ELSE FDiv(FSum([i \in 1..Len(data) |-> data[i].Totaloperaterevetz]), F(Len(data)))

\* ascending insertion sort of a sequence of finite values
RECURSIVE Insert(_, _)
Insert(x, sorted) ==
    IF sorted = <<>> THEN <<x>>
    ELSE IF FLe(x, Head(sorted)) THEN <<x>> \o sorted
    ELSE <<Head(sorted)>> \o Insert(x, Tail(sorted))

RECURSIVE SortAsc(_)
SortAsc(seq) == IF seq = <<>> THEN <<>> ELSE Insert(Head(seq), SortAsc(Tail(seq)))

\* GetMidValue: the median of the PE series; an error for an empty series
GetMidValueErr(peList) == Len(peList) = 0
GetMidValue(peList) ==
    LET v == SortAsc(peList)
        n == Len(v)
    IN IF n % 2 = 0 THEN FDiv(FAdd(v[n \div 2], v[n \div 2 + 1]), F(2))
       ELSE v[n \div 2 + 1]

(***************************************************************************)
(* The valuation computed by the first goroutine of NewStock               *)
(***************************************************************************)
maxGrowthRate == 50

\* true when last year's annual report is missing and the window is shifted
WindowShifted(hf) == GetReport(hf, ThisYear - 1, FinaReportTypeYear) = NilReport

lastYearReport(hf) ==
    IF WindowShifted(hf) THEN GetReport(hf, ThisYear - 2, FinaReportTypeYear)
    ELSE GetReport(hf, ThisYear - 1, FinaReportTypeYear)

beforeLastYearReport(hf) ==
    IF WindowShifted(hf) THEN GetReport(hf, ThisYear - 3, FinaReportTypeYear)
    ELSE GetReport(hf, ThisYear - 2, FinaReportTypeYear)

thisYearAvgRevIncrRatio(hf) ==
    IF WindowShifted(hf) THEN GetAvgRevenueIncreasingRatioByYear(hf, ThisYear - 1)
    ELSE GetAvgRevenueIncreasingRatioByYear(hf, ThisYear)

lastYearAvgRevIncrRatio(hf) ==
    IF WindowShifted(hf) THEN GetAvgRevenueIncreasingRatioByYear(hf, ThisYear - 2)
    ELSE GetAvgRevenueIncreasingRatioByYear(hf, ThisYear - 1)

epsHistory(hf) == ValueList(hf, "EPS", 3, FinaReportTypeYear)

\* mutant of baseEPS: the latest annual EPS is the base also with three years of EPS
baseEPSLatest(hf) == lastYearReport(hf).Epsjb

\* base EPS; reads lastYearReport.Epsjb when fewer than 3 annual EPS exist
baseEPS(hf) ==
    LET h == epsHistory(hf)
    IN IF Len(h) >= 3 THEN FDiv(FSum(h), F(Len(h))) ELSE lastYearReport(hf).Epsjb

CapGrowth(g) == IF FGt(g, F(maxGrowthRate)) THEN F(maxGrowthRate) ELSE g

adjustedGrowthRatio(hf) == CapGrowth(thisYearAvgRevIncrRatio(hf))

lastYearGrowth(hf) ==
    LET h == epsHistory(hf)
    IN FMul(FDiv(FSub(h[1], h[2]), h[2]), F(100))

\* mutant of explosiveGrowthAdjustment: growth of exactly 100% is dampened too
explosiveGrowthAdjustmentGe(hf) ==
    IF Len(epsHistory(hf)) >= 2 /\ FGe(lastYearGrowth(hf), F(100)) THEN Q(7, 10) ELSE F(1)

explosiveGrowthAdjustment(hf) ==
    IF Len(epsHistory(hf)) >= 2 /\ FGt(lastYearGrowth(hf), F(100)) THEN Q(7, 10) ELSE F(1)

\* line 262
FormulaRightPrice(hf, peMidVal) ==
    FMul(FMul(peMidVal,
              FMul(baseEPS(hf), FAdd(F(1), FDiv(adjustedGrowthRatio(hf), F(100))))),
         explosiveGrowthAdjustment(hf))

\* lines 263 and 286
PriceSpaceOf(rightPrice, p) == FMul(FDiv(FSub(rightPrice, p), p), F(100))

\* mutant of lastYearBaseEPS: the two newest EPS values are averaged
lastYearBaseEPSNewest(hf) ==
    LET h == epsHistory(hf)
    IN IF Len(h) >= 3 THEN FDiv(FAdd(h[1], h[2]), F(2)) ELSE beforeLastYearReport(hf).Epsjb

lastYearBaseEPS(hf) ==
    LET h == epsHistory(hf)
    IN IF Len(h) >= 3 THEN FDiv(FAdd(h[2], h[3]), F(2)) ELSE beforeLastYearReport(hf).Epsjb

lastYearAdjustedGrowthRatio(hf) == CapGrowth(lastYearAvgRevIncrRatio(hf))

\* line 279
FormulaLastYearRightPrice(hf, peMidVal) ==
    FMul(peMidVal,
         FMul(lastYearBaseEPS(hf), FAdd(F(1), FDiv(lastYearAdjustedGrowthRatio(hf), F(100)))))

\* line 282
InvalidRightPrice(rp) == IsNaN(rp) \/ IsInf(rp) \/ FLe(rp, F(0))

\* line 285
FallbackRightPrice(hf, peMidVal) == FMul(peMidVal, lastYearReport(hf).Epsjb)

\* nil-pointer dereferences of the chain, in program order
PanicAtBaseEPS(hf) == Len(epsHistory(hf)) < 3 /\ lastYearReport(hf) = NilReport
PanicAtLastYearBaseEPS(hf) == Len(epsHistory(hf)) < 3 /\ beforeLastYearReport(hf) = NilReport
PanicAtFallback(hf, peMidVal) ==
    InvalidRightPrice(FormulaRightPrice(hf, peMidVal)) /\ lastYearReport(hf) = NilReport

(***************************************************************************)
(* Stock, and the inputs of one NewStock call                              *)
(***************************************************************************)
\* BaseInfo.NewPrice is "-" (a string) while the market is closed
NoNewPrice == [k |-> "str", n |-> 0, d |-> 1]

BaseInfoOf(pe, growth3y, newPrice, industry) ==
    [PE |-> pe, NetprofitGrowthrate3Y |-> growth3y, NewPrice |-> newPrice, Industry |-> industry]

ZeroScore ==
    [ROEScore |-> F(0), CashFlowScore |-> F(0), ProfitGrowthScore |-> F(0),
     DebtRatioScore |-> F(0), MoatScore |-> F(0), ManagementScore |-> F(0),
     ValuationScore |-> F(0), TotalScore |-> F(0), RDScore |-> F(0),
     DividendScore |-> F(0), RepurchaseScore |-> F(0)]

\* Stock{BaseInfo: baseInfo}: every other field has its zero value
ZeroStock(baseInfo) ==
    [BaseInfo |-> baseInfo,
     HistoricalFinaMainData |-> <<>>,
     ValuationMap |-> "nil",
     HistoricalPEList |-> <<>>,
     RightPrice |-> F(0),
     PriceSpace |-> F(0),
     LastYearRightPrice |-> F(0),
     HistoricalPrice |-> <<>>,
     HistoricalVolatility |-> F(0),
     CompanyProfile |-> "nil",
     FinaAppointPublishDate |-> "",
     FinaActualPublishDate |-> "",
     FinaReportDate |-> "",
     OrgRatingList |-> "nil",
     ProfitPredictList |-> "nil",
     JZPG |-> "nil",
     PEG |-> F(0),
     HistoricalGincomeList |-> <<>>,
     BYYSRatio |-> F(0),
     FinaReportOpinion |-> "",
     HistoricalCashflowList |-> <<>>,
     NetcashOperate |-> F(0),
     NetcashInvest |-> F(0),
     NetcashFinance |-> F(0),
     NetcashFree |-> F(0),
     FreeHoldersTop10 |-> "nil",
     MainMoneyNetInflows |-> "nil",
     BuffettScore |-> ZeroScore]

\* GetPrice
GetPrice(st) ==
    IF st.BaseInfo.NewPrice.k # "str" THEN st.BaseInfo.NewPrice
    ELSE IF Len(st.HistoricalPrice) = 0 THEN F(-1)
    ELSE st.HistoricalPrice[Len(st.HistoricalPrice)]

\* mutant of ComputedPEG: a negative growth rate is divided by like a positive one
ComputedPEGNoNegative(baseInfo) ==
    IF FEq(baseInfo.NetprofitGrowthrate3Y, F(0)) THEN F(-1)
    ELSE LET peg == FDiv(baseInfo.PE, baseInfo.NetprofitGrowthrate3Y)
         IN IF IsNaN(peg) \/ IsInf(peg) THEN F(-1) ELSE peg

\* lines 146-172
ComputedPEG(baseInfo) ==
    IF FEq(baseInfo.NetprofitGrowthrate3Y, F(0)) THEN F(-1)
    ELSE IF FLt(baseInfo.NetprofitGrowthrate3Y, F(0)) THEN F(-1)
    ELSE LET peg == FDiv(baseInfo.PE, baseInfo.NetprofitGrowthrate3Y)
         IN IF IsNaN(peg) \/ IsInf(peg) THEN F(-1) ELSE peg

\* the goroutines, in the order NewStock starts them
UnitOrder ==
    <<"fina", "valuation", "price", "profile", "pubdate", "orgrating",
      "predict", "jzpg", "gincome", "cashflow", "holders", "inflows">>
Units == {UnitOrder[i] : i \in 1..Len(UnitOrder)}

\* the goroutines that make one query and store its result in one field
SimpleUnits == {"valuation", "profile", "orgrating", "predict", "jzpg", "holders", "inflows"}

\* mutant of SimpleField: the value-assessment result is stored in the field of
\* the profit forecasts
SimpleFieldDup(u) ==
    CASE u = "valuation" -> "ValuationMap"
      [] u = "profile" -> "CompanyProfile"
      [] u = "orgrating" -> "OrgRatingList"
      [] u = "predict" -> "ProfitPredictList"
      [] u = "jzpg" -> "ProfitPredictList"
      [] u = "holders" -> "FreeHoldersTop10"
      [] u = "inflows" -> "MainMoneyNetInflows"

SimpleField(u) ==
    CASE u = "valuation" -> "ValuationMap"
      [] u = "profile" -> "CompanyProfile"
      [] u = "orgrating" -> "OrgRatingList"
      [] u = "predict" -> "ProfitPredictList"
      [] u = "jzpg" -> "JZPG"
      [] u = "holders" -> "FreeHoldersTop10"
      [] u = "inflows" -> "MainMoneyNetInflows"

\* the provider operation a goroutine calls first
QueryOf(u) ==
    CASE u = "fina" -> "QueryHistoricalFinaMainData"
      [] u = "valuation" -> "QueryValuationStatus"
      [] u = "price" -> "QueryHistoricalStockPrice"
      [] u = "profile" -> "QueryCompanyProfile"
      [] u = "pubdate" -> "QueryFinaPublishDateList"
      [] u = "orgrating" -> "QueryOrgRating"
      [] u = "predict" -> "QueryProfitPredict"
      [] u = "jzpg" -> "QueryJiaZhiPingGu"
      [] u = "gincome" -> "QueryFinaGincomeData"
      [] u = "cashflow" -> "QueryFinaCashflowData"
      [] u = "holders" -> "QueryFreeHolders"
      [] u = "inflows" -> "QueryMainMoneyNetInflows"

Queries == {QueryOf(u) : u \in Units} \cup {"QueryHistoricalPEList"}

VARIABLES
    s,          \* the Stock under construction
    price,      \* the local price of NewStock (line 173)
    mainpc,     \* where NewStock itself is
    launched,   \* how many goroutines NewStock has started
    wg,         \* the WaitGroup counter
    pc,         \* where each goroutine is
    dones,      \* how many times each goroutine has called wg.Done
    calls,      \* how many times each provider operation has been invoked
    acc,        \* the accesses of the goroutines to fields of s: <<unit, field, "r" or "w">>
    crashed,    \* the process has died of an unrecovered panic
    ret,        \* what NewStock returned
    env,        \* which answers the providers may give in this call
    failed,     \* the provider operations that returned an error
    stockList,  \* a StockList
    unsorted,   \* the StockList as it was before the last sort
    sortedBy,   \* the last sort of the StockList: "none", "ROE" or "PriceSpace"
    req,        \* the position request being handled
    resp,       \* the answer of CalculatePositionHandler to req
    target      \* the amount calculateTargetPosition returned for req

\* what lies outside one NewStock call
rest == <<stockList, unsorted, sortedBy, req, resp, target>>

vars == <<s, price, mainpc, launched, wg, pc, dones, calls, acc, crashed, ret, env, failed, rest>>

NoRequest == [given |-> FALSE]
NoResponse == [sent |-> FALSE]
NoTarget == [called |-> FALSE]
\* no list is sorted and no position is asked for
NoRest ==
    /\ stockList = <<>>
    /\ unsorted = <<>>
    /\ sortedBy = "none"
    /\ req = NoRequest
    /\ resp = NoResponse
    /\ target = NoTarget

NotReturned == [returned |-> FALSE, err |-> "none"]

InitWith(baseInfos, envs) ==
    /\ env \in envs
    /\ \E b \in baseInfos : s = ZeroStock(b)
    /\ price = F(0)
    /\ mainpc = "peg"
    /\ launched = 0
    /\ wg = 0
    /\ pc = [u \in Units |-> "idle"]
    /\ dones = [u \in Units |-> 0]
    /\ calls = [q \in Queries |-> 0]
    /\ acc = {}
    /\ crashed = FALSE
    /\ ret = NotReturned
    /\ failed = {}
    /\ NoRest

\* lines 140-173: PEG, then price := s.GetPrice()
ComputePEG ==
    /\ ~crashed
    /\ mainpc = "peg"
    /\ s' = [s EXCEPT !.PEG = ComputedPEG(s.BaseInfo)]
    /\ price' = GetPrice(s)
    /\ mainpc' = "spawn"
    /\ UNCHANGED <<launched, wg, pc, dones, calls, acc, crashed, ret, env, failed, rest>>

\* wg.Add(1); go func(...){...}: the goroutine runs up to its first provider call
Launch ==
    /\ ~crashed
    /\ mainpc = "spawn"
    /\ launched < Len(UnitOrder)
    /\ LET u == UnitOrder[launched + 1]
       IN /\ wg' = wg + 1
          /\ pc' = [pc EXCEPT ![u] = "query"]
          /\ calls' = [calls EXCEPT ![QueryOf(u)] = @ + 1]
          /\ acc' = acc \cup {<<u, "BaseInfo", "r">>}
    /\ launched' = launched + 1
    /\ mainpc' = IF launched + 1 = Len(UnitOrder) THEN "wait" ELSE "spawn"
    /\ UNCHANGED <<s, price, dones, crashed, ret, env, failed, rest>>

\* defer wg.Done()
Done(u) ==
    /\ wg' = wg - 1
    /\ dones' = [dones EXCEPT ![u] = @ + 1]

Wrote(u, fields) == acc \cup {<<u, f, "w">> : f \in fields}
Read(u, fields) == {<<u, f, "r">> : f \in fields}

\* a single-query goroutine: the query returns an error, or a result that is stored
SimpleReturn(u, results) ==
    /\ ~crashed
    /\ u \in SimpleUnits
    /\ pc[u] = "query"
    /\ \E r \in results :
       /\ failed' = IF r = "err" THEN failed \cup {QueryOf(u)} ELSE failed
       /\ IF r = "err"
          THEN UNCHANGED <<s, acc>>
          ELSE /\ s' = [s EXCEPT ![SimpleField(u)] = r]
               /\ acc' = Wrote(u, {SimpleField(u)})
    /\ pc' = [pc EXCEPT ![u] = "done"]
    /\ Done(u)
    /\ UNCHANGED <<price, mainpc, launched, calls, crashed, ret, env, rest>>


Panic(u) ==
    /\ pc' = [pc EXCEPT ![u] = "panicked"]
    /\ Done(u)

Finish(u) ==
    /\ pc' = [pc EXCEPT ![u] = "done"]
    /\ Done(u)

\* lines 178-192: the fundamentals query returns
FinaReturn(results) ==
    /\ ~crashed
    /\ pc["fina"] = "query"
    /\ \E r \in results :
       /\ failed' = IF r.err THEN failed \cup {"QueryHistoricalFinaMainData"} ELSE failed
       /\ IF r.err \/ Len(r.hf) = 0
          THEN /\ Finish("fina")
               /\ UNCHANGED <<s, calls, acc>>
          ELSE /\ s' = [s EXCEPT !.HistoricalFinaMainData = r.hf]
               /\ acc' = Wrote("fina", {"HistoricalFinaMainData"})
               /\ calls' = [calls EXCEPT !["QueryHistoricalPEList"] = @ + 1]
               /\ pc' = [pc EXCEPT !["fina"] = "query2"]
               /\ UNCHANGED <<wg, dones>>
    /\ UNCHANGED <<price, mainpc, launched, crashed, ret, env, rest>>

\* lines 194-263: the PE query returns; median, base EPS, RightPrice, PriceSpace
PEReturn(results) ==
    /\ ~crashed
    /\ pc["fina"] = "query2"
    /\ \E r \in results :
       /\ failed' = IF r.err THEN failed \cup {"QueryHistoricalPEList"} ELSE failed
       /\ LET hf == s.HistoricalFinaMainData
              rp == FormulaRightPrice(hf, GetMidValue(r.list))
          IN IF r.err
             THEN /\ Finish("fina")
                  /\ UNCHANGED <<s, acc>>
             ELSE IF GetMidValueErr(r.list)
             THEN /\ s' = [s EXCEPT !.HistoricalPEList = r.list]
                  /\ acc' = Wrote("fina", {"HistoricalPEList"})
                            \cup Read("fina", {"HistoricalFinaMainData"})
                  /\ Finish("fina")
             ELSE IF PanicAtBaseEPS(hf)
             THEN /\ s' = [s EXCEPT !.HistoricalPEList = r.list]
                  /\ acc' = Wrote("fina", {"HistoricalPEList"})
                            \cup Read("fina", {"HistoricalFinaMainData"})
                  /\ Panic("fina")
             ELSE /\ s' = [s EXCEPT !.HistoricalPEList = r.list,
                                    !.RightPrice = rp,
                                    !.PriceSpace = PriceSpaceOf(rp, price)]
                  /\ acc' = Wrote("fina", {"HistoricalPEList", "RightPrice", "PriceSpace"})
                            \cup Read("fina", {"HistoricalFinaMainData", "RightPrice"})
                  /\ pc' = [pc EXCEPT !["fina"] = "lastyear"]
                  /\ UNCHANGED <<wg, dones>>
    /\ UNCHANGED <<price, mainpc, launched, calls, crashed, ret, env, rest>>

\* lines 265-291: LastYearRightPrice, then the validation of RightPrice
FinaLastYear ==
    /\ ~crashed
    /\ pc["fina"] = "lastyear"
    /\ LET hf == s.HistoricalFinaMainData
           mid == GetMidValue(s.HistoricalPEList)
           fb == FallbackRightPrice(hf, mid)
       IN IF PanicAtLastYearBaseEPS(hf)
          THEN /\ Panic("fina")
               /\ UNCHANGED <<s, acc>>
          ELSE IF ~InvalidRightPrice(s.RightPrice)
          THEN /\ s' = [s EXCEPT !.LastYearRightPrice = FormulaLastYearRightPrice(hf, mid)]
               /\ acc' = Wrote("fina", {"LastYearRightPrice"}) \cup Read("fina", {"RightPrice"})
               /\ Finish("fina")
          ELSE IF lastYearReport(hf) = NilReport
          THEN /\ s' = [s EXCEPT !.LastYearRightPrice = FormulaLastYearRightPrice(hf, mid)]
               /\ acc' = Wrote("fina", {"LastYearRightPrice"}) \cup Read("fina", {"RightPrice"})
               /\ Panic("fina")
          ELSE /\ s' = [s EXCEPT !.LastYearRightPrice = FormulaLastYearRightPrice(hf, mid),
                                 !.RightPrice = fb,
                                 !.PriceSpace = PriceSpaceOf(fb, price)]
               /\ acc' = Wrote("fina", {"LastYearRightPrice", "RightPrice", "PriceSpace"})
                         \cup Read("fina", {"RightPrice"})
               /\ Finish("fina")
    /\ UNCHANGED <<price, mainpc, launched, calls, crashed, ret, env, failed, rest>>

\* mutant of PriceReturn: a failed price query is issued once more
PriceReturnRetry(results) ==
    /\ ~crashed
    /\ pc["price"] = "query"
    /\ \E r \in results :
       /\ failed' = IF r.err THEN failed \cup {"QueryHistoricalStockPrice"} ELSE failed
       /\ IF r.err /\ calls["QueryHistoricalStockPrice"] < 2
          THEN /\ calls' = [calls EXCEPT !["QueryHistoricalStockPrice"] = @ + 1]
               /\ UNCHANGED <<s, acc, pc, wg, dones>>
          ELSE /\ IF r.err
                  THEN UNCHANGED <<s, acc>>
                  ELSE /\ s' = [s EXCEPT !.HistoricalPrice = r.Price]
                       /\ acc' = Wrote("price", {"HistoricalPrice"})
               /\ Finish("price")
               /\ UNCHANGED calls
    /\ UNCHANGED <<price, mainpc, launched, crashed, ret, env, rest>>

\* lines 306-323: price history, then its volatility (hisPrice.HistoricalVolatility,
\* a function of the price history given with the provider's result)
PriceReturn(results) ==
    /\ ~crashed
    /\ pc["price"] = "query"
    /\ \E r \in results :
       /\ failed' = IF r.err THEN failed \cup {"QueryHistoricalStockPrice"} ELSE failed
       /\ IF r.err
          THEN UNCHANGED <<s, acc>>
          ELSE IF r.hvErr
          THEN /\ s' = [s EXCEPT !.HistoricalPrice = r.Price]
               /\ acc' = Wrote("price", {"HistoricalPrice"})
          ELSE /\ s' = [s EXCEPT !.HistoricalPrice = r.Price, !.HistoricalVolatility = r.hv]
               /\ acc' = Wrote("price", {"HistoricalPrice", "HistoricalVolatility"})
    /\ Finish("price")
    /\ UNCHANGED <<price, mainpc, launched, calls, crashed, ret, env, rest>>

\* lines 338-351
PubdateReturn(results) ==
    /\ ~crashed
    /\ pc["pubdate"] = "query"
    /\ \E r \in results :
       /\ failed' = IF r.err THEN failed \cup {"QueryFinaPublishDateList"} ELSE failed
       /\ IF r.err \/ Len(r.list) = 0
          THEN UNCHANGED <<s, acc>>
          ELSE /\ s' = [s EXCEPT !.FinaAppointPublishDate = r.list[1].AppointPublishDate,
                                 !.FinaActualPublishDate = r.list[1].ActualPublishDate,
                                 !.FinaReportDate = r.list[1].ReportDate]
               /\ acc' = Wrote("pubdate", {"FinaAppointPublishDate", "FinaActualPublishDate",
                                           "FinaReportDate"})
    /\ Finish("pubdate")
    /\ UNCHANGED <<price, mainpc, launched, calls, crashed, ret, env, rest>>

\* line 402
BYYSRatioOf(gincome) ==
    FDiv(gincome.OperateProfit, FAdd(gincome.OperateProfit, gincome.NonbusinessIncome))

\* lines 390-406
GincomeReturn(results) ==
    /\ ~crashed
    /\ pc["gincome"] = "query"
    /\ \E r \in results :
       /\ failed' = IF r.err THEN failed \cup {"QueryFinaGincomeData"} ELSE failed
       /\ IF r.err
          THEN UNCHANGED <<s, acc>>
          ELSE IF Len(r.list) = 0
          THEN /\ s' = [s EXCEPT !.HistoricalGincomeList = r.list]
               /\ acc' = Wrote("gincome", {"HistoricalGincomeList"})
                         \cup Read("gincome", {"HistoricalGincomeList"})
          ELSE /\ s' = [s EXCEPT !.HistoricalGincomeList = r.list,
                                 !.BYYSRatio = BYYSRatioOf(r.list[1]),
                                 !.FinaReportOpinion = r.list[1].OpinionType]
               /\ acc' = Wrote("gincome", {"HistoricalGincomeList", "BYYSRatio",
                                           "FinaReportOpinion"})
                         \cup Read("gincome", {"HistoricalGincomeList"})
    /\ Finish("gincome")
    /\ UNCHANGED <<price, mainpc, launched, calls, crashed, ret, env, rest>>

\* lines 423-427
NetcashFreeOf(cf) ==
    IF FLt(cf.NetcashInvest, F(0)) THEN FAdd(cf.NetcashOperate, cf.NetcashInvest)
    ELSE FSub(cf.NetcashOperate, cf.NetcashInvest)

\* lines 409-429
CashflowReturn(results) ==
    /\ ~crashed
    /\ pc["cashflow"] = "query"
    /\ \E r \in results :
       /\ failed' = IF r.err THEN failed \cup {"QueryFinaCashflowData"} ELSE failed
       /\ IF r.err
          THEN UNCHANGED <<s, acc>>
          ELSE IF Len(r.list) = 0
          THEN /\ s' = [s EXCEPT !.HistoricalCashflowList = r.list]
               /\ acc' = Wrote("cashflow", {"HistoricalCashflowList"})
                         \cup Read("cashflow", {"HistoricalCashflowList"})
          ELSE /\ s' = [s EXCEPT !.HistoricalCashflowList = r.list,
                                 !.NetcashOperate = r.list[1].NetcashOperate,
                                 !.NetcashInvest = r.list[1].NetcashInvest,
                                 !.NetcashFinance = r.list[1].NetcashFinance,
                                 !.NetcashFree = NetcashFreeOf(r.list[1])]
               /\ acc' = Wrote("cashflow", {"HistoricalCashflowList", "NetcashOperate",
                                            "NetcashInvest", "NetcashFinance", "NetcashFree"})
                         \cup Read("cashflow", {"HistoricalCashflowList", "NetcashOperate",
                                                "NetcashInvest"})
    /\ Finish("cashflow")
    /\ UNCHANGED <<price, mainpc, launched, calls, crashed, ret, env, rest>>

\* an unrecovered panic in a goroutine ends the process, after its deferred calls
Crash ==
    /\ ~crashed
    /\ \E u \in Units : pc[u] = "panicked"
    /\ crashed' = TRUE
    /\ UNCHANGED <<s, price, mainpc, launched, wg, pc, dones, calls, acc, ret, env, failed, rest>>

\* mutant of Wait: the barrier is released while one goroutine is still running
WaitEarly ==
    /\ ~crashed
    /\ mainpc = "wait"
    /\ wg <= 1
    /\ mainpc' = "score"
    /\ UNCHANGED <<s, price, launched, wg, pc, dones, calls, acc, crashed, ret, env, failed, rest>>

\* line 460: wg.Wait()
Wait ==
    /\ ~crashed
    /\ mainpc = "wait"
    /\ wg = 0
    /\ mainpc' = "score"
    /\ UNCHANGED <<s, price, launched, wg, pc, dones, calls, acc, crashed, ret, env, failed, rest>>


(***************************************************************************)
(* calculateBuffettScore                                                   *)
(***************************************************************************)
FAbs(x) == IF IsNaN(x) THEN NaN ELSE [x EXCEPT !.n = Abs(x.n)]

\* math.Sqrt(v) / a > t, for finite v >= 0, finite a and t > 0 (no square root is taken:
\* for a > 0 both sides are squared; v/0 is +Inf for v > 0 and NaN for v = 0)
SqrtOverGt(v, a, t) ==
    IF FGt(a, F(0)) THEN FGt(v, FMul(FMul(t, t), FMul(a, a)))
    ELSE IF FEq(a, F(0)) THEN FGt(v, F(0))
    ELSE FALSE

\* mutant of ROEScoreOf: four years of ROE are enough
ROEScoreOfFourYears(st) ==
    LET roeList == ValueList(st.HistoricalFinaMainData, "ROE", 5, FinaReportTypeYear)
        n == Len(roeList)
        avgROE == FDiv(FSum(roeList), F(n))
        variance == FSum([i \in 1..n |-> FMul(FSub(roeList[i], avgROE), FSub(roeList[i], avgROE))])
        base == IF FGe(avgROE, F(20)) THEN F(20)
                ELSE IF FGe(avgROE, F(15)) THEN F(15)
                ELSE FMul(FDiv(avgROE, F(15)), F(15))
    IN IF n = 0 THEN F(0)
       ELSE IF n < 4 THEN F(0)
       ELSE IF SqrtOverGt(FDiv(variance, F(n)), avgROE, Q(3, 10)) THEN FMul(base, Q(8, 10))
       ELSE base

\* calculateROEScore
ROEScoreOf(st) ==
    LET roeList == ValueList(st.HistoricalFinaMainData, "ROE", 5, FinaReportTypeYear)
        n == Len(roeList)
        avgROE == FDiv(FSum(roeList), F(n))
        variance == FSum([i \in 1..n |-> FMul(FSub(roeList[i], avgROE), FSub(roeList[i], avgROE))])
        base == IF FGe(avgROE, F(20)) THEN F(20)
                ELSE IF FGe(avgROE, F(15)) THEN F(15)
                ELSE FMul(FDiv(avgROE, F(15)), F(15))
    IN IF n = 0 THEN F(0)
       ELSE IF n < 5 THEN F(0)
       ELSE IF SqrtOverGt(FDiv(variance, F(n)), avgROE, Q(3, 10)) THEN FMul(base, Q(8, 10))
       ELSE base

\* calculateCashFlowScore
CashFlowScoreOf(st) ==
    LET l == st.HistoricalCashflowList
        positiveCount == Cardinality({i \in 1..3 : i <= Len(l) /\ FGt(l[i].NetcashOperate, F(0))})
    IN IF Len(l) < 3 THEN F(0)
       ELSE CASE positiveCount = 3 -> F(15)
              [] positiveCount = 2 -> F(10)
              [] positiveCount = 1 -> F(5)
              [] OTHER -> F(0)

\* mutant of ProfitGrowthScoreOf: an unchanged profit counts as an increase
ProfitGrowthScoreOfGe(st) ==
    LET hf == st.HistoricalFinaMainData
        profitList == ValueList(hf, "NETPROFIT", 5, FinaReportTypeYear)
        n == Len(profitList)
        growthCount == Cardinality({i \in 1..(n - 1) : FGe(profitList[i], profitList[i + 1])})
        growth1(i) == FDiv(FSub(profitList[i], profitList[i + 1]), FAbs(profitList[i + 1]))
        growth2(i) == FDiv(FSub(profitList[i - 1], profitList[i]), FAbs(profitList[i]))
        volatilitySum == FSum([j \in 1..(n - 2) |-> FAbs(FSub(growth1(j + 1), growth2(j + 1)))])
        score == F(growthCount * 3)
    IN IF Len(hf) < 5 THEN F(0)
       ELSE IF n < 5 THEN F(0)
       ELSE IF FGt(volatilitySum, Q(5, 10)) THEN FMul(score, Q(8, 10))
       ELSE score

\* calculateProfitGrowthScore
ProfitGrowthScoreOf(st) ==
    LET hf == st.HistoricalFinaMainData
        profitList == ValueList(hf, "NETPROFIT", 5, FinaReportTypeYear)
        n == Len(profitList)
        growthCount == Cardinality({i \in 1..(n - 1) : FGt(profitList[i], profitList[i + 1])})
        growth1(i) == FDiv(FSub(profitList[i], profitList[i + 1]), FAbs(profitList[i + 1]))
        growth2(i) == FDiv(FSub(profitList[i - 1], profitList[i]), FAbs(profitList[i]))
        volatilitySum == FSum([j \in 1..(n - 2) |-> FAbs(FSub(growth1(j + 1), growth2(j + 1)))])
        score == F(growthCount * 3)
    IN IF Len(hf) < 5 THEN F(0)
       ELSE IF n < 5 THEN F(0)
       ELSE IF FGt(volatilitySum, Q(5, 10)) THEN FMul(score, Q(8, 10))
       ELSE score

\* calculateDebtRatioScore
DebtRatioScoreOf(st) ==
    LET hf == st.HistoricalFinaMainData
    IN IF Len(hf) = 0 THEN F(0)
       ELSE IF FLt(hf[1].Zcfzl, F(30)) THEN F(10)
       ELSE IF FLt(hf[1].Zcfzl, F(50)) THEN F(8)
       ELSE IF FLt(hf[1].Zcfzl, F(70)) THEN F(5)
       ELSE F(0)

\* mutant of ValuationScoreOf: every PEG below 1 raises the score
ValuationScoreOfAnyPEG(st) ==
    LET pe == st.BaseInfo.PE
        score == IF FLt(pe, F(10)) THEN F(15)
                 ELSE IF FLt(pe, F(15)) THEN F(12)
                 ELSE IF FLt(pe, F(20)) THEN F(8)
                 ELSE IF FLt(pe, F(30)) THEN F(5)
                 ELSE F(0)
    IN IF FLt(st.PEG, F(1)) THEN FMax(score, F(15)) ELSE score

\* calculateValuationScore
ValuationScoreOf(st) ==
    LET pe == st.BaseInfo.PE
        score == IF FLt(pe, F(10)) THEN F(15)
                 ELSE IF FLt(pe, F(15)) THEN F(12)
                 ELSE IF FLt(pe, F(20)) THEN F(8)
                 ELSE IF FLt(pe, F(30)) THEN F(5)
                 ELSE F(0)
    IN IF FGt(st.PEG, F(0)) /\ FLt(st.PEG, F(1)) THEN FMax(score, F(15)) ELSE score

\* the industries of calculateMoatScore (the source names them in Chinese):
\* food and beverage, pharmaceuticals, home appliances, banking, insurance
StrongMoatIndustries == {"FoodBeverage", "Pharma", "HomeAppliance", "Bank", "Insurance"}
\* construction, mining, agriculture
WeakMoatIndustries == {"Construction", "Mining", "Agriculture"}

\* calculateMoatScore
MoatScoreOf(st) ==
    LET score == IF st.BaseInfo.Industry \in StrongMoatIndustries THEN F(8)
                 ELSE IF st.BaseInfo.Industry \in WeakMoatIndustries THEN F(3)
                 ELSE F(5)
    IN FMin(F(10), score)

\* calculateManagementScore: the value set at line 728 is overwritten at line 733
ManagementScoreOf(st) ==
    LET score1 == IF Len(st.HistoricalFinaMainData) >= 3 THEN Q(75, 10) ELSE F(5)
        score == Q(75, 10)
    IN FMin(F(10), score)

\* calculateRDScore, calculateDividendScore, calculateRepurchaseScore
RDScoreOf(st) == F(5)
DividendScoreOf(st) == F(5)
RepurchaseScoreOf(st) == F(5)

\* mutant of calculateBuffettScore: the repurchase score is left out of the total
calculateBuffettScoreNine(st) ==
    LET b == [ROEScore |-> ROEScoreOf(st),
              CashFlowScore |-> CashFlowScoreOf(st),
              ProfitGrowthScore |-> ProfitGrowthScoreOf(st),
              DebtRatioScore |-> DebtRatioScoreOf(st),
              MoatScore |-> MoatScoreOf(st),
              ManagementScore |-> ManagementScoreOf(st),
              ValuationScore |-> ValuationScoreOf(st),
              RDScore |-> RDScoreOf(st),
              DividendScore |-> DividendScoreOf(st),
              RepurchaseScore |-> RepurchaseScoreOf(st),
              TotalScore |-> F(0)]
        totalScore == FSum(<<b.ROEScore, b.CashFlowScore, b.ProfitGrowthScore,
                             b.DebtRatioScore, b.MoatScore, b.ManagementScore,
                             b.ValuationScore, b.RDScore, b.DividendScore>>)
    IN [b EXCEPT !.TotalScore = totalScore]

\* calculateBuffettScore (ScoreDescription, a formatted text, is left out)
calculateBuffettScore(st) ==
    LET b == [ROEScore |-> ROEScoreOf(st),
              CashFlowScore |-> CashFlowScoreOf(st),
              ProfitGrowthScore |-> ProfitGrowthScoreOf(st),
              DebtRatioScore |-> DebtRatioScoreOf(st),
              MoatScore |-> MoatScoreOf(st),
              ManagementScore |-> ManagementScoreOf(st),
              ValuationScore |-> ValuationScoreOf(st),
              RDScore |-> RDScoreOf(st),
              DividendScore |-> DividendScoreOf(st),
              RepurchaseScore |-> RepurchaseScoreOf(st),
              TotalScore |-> F(0)]
        totalScore == FSum(<<b.ROEScore, b.CashFlowScore, b.ProfitGrowthScore,
                             b.DebtRatioScore, b.MoatScore, b.ManagementScore,
                             b.ValuationScore, b.RDScore, b.DividendScore,
                             b.RepurchaseScore>>)
    IN [b EXCEPT !.TotalScore = totalScore]

\* mutant of Score: the free cash flow is computed again after the join
ScoreRewritesDerived ==
    /\ ~crashed
    /\ mainpc = "score"
    /\ s' = [s EXCEPT !.BuffettScore = calculateBuffettScore(s),
                      !.NetcashFree = FSub(s.NetcashOperate, s.NetcashInvest)]
    /\ mainpc' = "return"
    /\ UNCHANGED <<price, launched, wg, pc, dones, calls, acc, crashed, ret, env, failed, rest>>

\* line 463
Score ==
    /\ ~crashed
    /\ mainpc = "score"
    /\ s' = [s EXCEPT !.BuffettScore = calculateBuffettScore(s)]
    /\ mainpc' = "return"
    /\ UNCHANGED <<price, launched, wg, pc, dones, calls, acc, crashed, ret, env, failed, rest>>

\* line 465: return s, nil
Return ==
    /\ ~crashed
    /\ mainpc = "return"
    /\ ret' = [returned |-> TRUE, err |-> "nil"]
    /\ mainpc' = "returned"
    /\ UNCHANGED <<s, price, launched, wg, pc, dones, calls, acc, crashed, env, failed, rest>>


(***************************************************************************)
(* The results the providers may give                                      *)
(***************************************************************************)
AnnualReport(year, eps) == Report(year, FinaReportTypeYear, eps, F(60), F(10), F(100), F(40))
QuarterReport(year, rev) == Report(year, FinaReportTypeQuarter, F(0), rev, F(10), F(100), F(40))

\* three annual reports and this year's quarterly report: EPS 2.0, 1.0, 0.8, growth 10%
hfThreeYears ==
    <<QuarterReport(ThisYear, F(10)), AnnualReport(ThisYear - 1, F(2)),
      AnnualReport(ThisYear - 2, F(1)), AnnualReport(ThisYear - 3, Q(4, 5))>>

\* a company with a single annual report
hfOneYear == <<QuarterReport(ThisYear, F(10)), AnnualReport(ThisYear - 1, F(2))>>

FinaErr == [err |-> TRUE, hf |-> <<>>]
FinaOk(hf) == [err |-> FALSE, hf |-> hf]
PEErr == [err |-> TRUE, list |-> <<>>]
PEOk(list) == [err |-> FALSE, list |-> list]

\* The providers' possible answers in one call of NewStock.  Spec explores three
\* environments: in "chain" the fundamentals and PE providers answer in every way
\* and all other providers answer with data; in "partial" the price, publish-date,
\* income and cash-flow providers answer in every way and all other providers
\* answer with data; in "flaky" each single-field provider may fail and the other
\* providers are down.  In "valuation" only the fundamentals and PE providers
\* answer, in many ways (ValSpec); in "down" every provider fails (PegSpec).
\* the most annual reports a history of ValSpec holds
MaxAnnual == 4
EPSValues == {F(2), F(1), Q(4, 5), F(-1), F(0), F(-4)}
\* the EPS of the reports older than the three newest
OldEPSValues == {F(1), F(-1)}
RevValues == {F(10), F(120)}
\* the newest annual report is the one of ThisYear - first
NewestAnnualOffsets == {1, 2, 3}
EpsSeqs ==
    UNION {{e \in [1..n -> EPSValues] : \A i \in 4..n : e[i] \in OldEPSValues} : n \in 0..MaxAnnual}
History(first, eps, rev) ==
    <<QuarterReport(ThisYear, rev)>>
    \o [i \in 1..Len(eps) |-> AnnualReport(ThisYear - first - i + 1, eps[i])]
ValHistories ==
    {History(first, eps, rev) : first \in NewestAnnualOffsets, eps \in EpsSeqs, rev \in RevValues}
\* the histories of ScoreSpec: q quarterly reports of this year, then n annual
\* reports, the i-th newest with ROE roe[i], net profit pat.profit[i] and the debt
\* ratio pat.debt
MaxScoreAnnual == 6
ROEPatterns ==
    {<<F(25), F(25), F(25), F(25), F(25), F(25), F(25), F(25)>>,
     <<F(15), F(15), F(15), F(15), F(15), F(15), F(15), F(15)>>,
     <<F(9), F(9), F(9), F(9), F(9), F(9), F(9), F(9)>>,
     <<F(-40), F(-40), F(-40), F(-40), F(-40), F(-40), F(-40), F(-40)>>,
     <<F(40), F(5), F(40), F(5), F(40), F(5), F(40), F(5)>>,
     <<F(0), F(0), F(0), F(0), F(0), F(0), F(0), F(0)>>}
ProfitPatterns ==
    {[profit |-> <<F(256), F(128), F(64), F(32), F(16), F(8), F(4), F(2)>>, debt |-> F(20)],
     [profit |-> <<F(10), F(20), F(30), F(40), F(50), F(60), F(70), F(80)>>, debt |-> F(80)],
     [profit |-> <<F(100), F(10), F(20), F(5), F(8), F(2), F(3), F(1)>>, debt |-> F(50)],
     [profit |-> <<F(5), F(0), F(0), F(3), F(1), F(1), F(1), F(1)>>, debt |-> F(30)]}
ScoreHistory(q, n, roe, pat) ==
    [i \in 1..q |-> Report(ThisYear, FinaReportTypeQuarter, F(0), F(10), roe[1], F(1), pat.debt)]
    \o [i \in 1..n |->
           Report(ThisYear - i, FinaReportTypeYear, F(1), F(10), roe[i], pat.profit[i], pat.debt)]
ScoreHistories ==
    {ScoreHistory(q, n, roe, pat) :
        q \in 0..1, n \in 0..MaxScoreAnnual, roe \in ROEPatterns, pat \in ProfitPatterns}
    \ {<<>>}
FinaResultsOf(e) ==
    CASE e = "chain" -> {FinaErr, FinaOk(<<>>), FinaOk(hfThreeYears), FinaOk(hfOneYear)}
      [] e \in {"partial", "pricing"} -> {FinaOk(hfThreeYears)}
      [] e \in {"flaky", "down"} -> {FinaErr}
      [] e = "scoring" -> {FinaErr} \cup {FinaOk(h) : h \in ScoreHistories}
      [] e = "valuation" -> {FinaErr} \cup {FinaOk(h) : h \in ValHistories}
PEResultsOf(e) ==
    CASE e = "chain" -> {PEErr, PEOk(<<>>), PEOk(<<F(15)>>)}
      [] e = "partial" -> {PEOk(<<F(15)>>)}
      [] e = "pricing" -> {PEErr, PEOk(<<F(15)>>), PEOk(<<F(30), F(10), F(14)>>)}
      [] e \in {"flaky", "scoring"} -> {PEErr}
      [] e = "valuation" -> {PEErr, PEOk(<<>>), PEOk(<<F(15)>>), PEOk(<<F(30), F(10), F(14)>>)}
SimpleResultsOf(e) ==
    CASE e \in {"chain", "partial"} -> {"data"}
      [] e = "flaky" -> {"err", "data"}
      [] e \in {"down", "scoring"} -> {"err"}
PriceErr == [err |-> TRUE, Price |-> <<>>, hvErr |-> FALSE, hv |-> F(0)]
PriceOk == [err |-> FALSE, Price |-> <<F(24)>>, hvErr |-> FALSE, hv |-> Q(1, 5)]
PriceResultsOf(e) ==
    CASE e = "chain" -> {PriceOk}
      [] e = "partial" ->
           {PriceErr, PriceOk, [err |-> FALSE, Price |-> <<F(24)>>, hvErr |-> TRUE, hv |-> F(0)]}
      [] e = "pricing" ->
           {PriceErr, PriceOk,
            [err |-> FALSE, Price |-> <<F(24), F(20)>>, hvErr |-> FALSE, hv |-> Q(1, 5)]}
      [] e \in {"flaky", "down", "scoring"} -> {PriceErr}
ListErr == [err |-> TRUE, list |-> <<>>]
ListOk(list) == [err |-> FALSE, list |-> list]
PubdateEntry == [AppointPublishDate |-> "d1", ActualPublishDate |-> "d2", ReportDate |-> "d3"]
PubdateResultsOf(e) ==
    CASE e = "chain" -> {ListOk(<<PubdateEntry>>)}
      [] e = "partial" -> {ListErr, ListOk(<<>>), ListOk(<<PubdateEntry>>)}
      [] e \in {"flaky", "down", "scoring"} -> {ListErr}
GincomeEntry == [OperateProfit |-> F(9), NonbusinessIncome |-> F(1), OpinionType |-> "standard"]
GincomeResultsOf(e) ==
    CASE e = "chain" -> {ListOk(<<GincomeEntry>>)}
      [] e = "partial" -> {ListErr, ListOk(<<GincomeEntry>>)}
      [] e \in {"flaky", "down", "scoring"} -> {ListErr}
CashflowEntry(op, inv) == [NetcashOperate |-> op, NetcashInvest |-> inv, NetcashFinance |-> F(1)]
CashflowList ==
    <<CashflowEntry(F(5), F(-2)), CashflowEntry(F(4), F(1)), CashflowEntry(F(-1), F(1))>>
\* three years of positive operating cash flow; a list of two years
CashflowGood ==
    <<CashflowEntry(F(5), F(-2)), CashflowEntry(F(4), F(1)), CashflowEntry(F(3), F(1))>>
CashflowShort == <<CashflowEntry(F(5), F(-2)), CashflowEntry(F(-4), F(1))>>
CashflowResultsOf(e) ==
    CASE e = "chain" -> {ListOk(CashflowList)}
      [] e = "partial" -> {ListErr, ListOk(CashflowList)}
      [] e \in {"flaky", "down"} -> {ListErr}
      [] e = "scoring" ->
           {ListErr, ListOk(CashflowList), ListOk(CashflowGood), ListOk(CashflowShort)}
BaseInfos == {BaseInfoOf(F(12), F(20), F(25), "Bank")}

Init == InitWith(BaseInfos, {"chain", "partial", "flaky"})

Next ==
    \/ ComputePEG
    \/ Launch
    \/ \E u \in SimpleUnits : SimpleReturn(u, SimpleResultsOf(env))
    \/ FinaReturn(FinaResultsOf(env))
    \/ PEReturn(PEResultsOf(env))
    \/ FinaLastYear
    \/ PriceReturn(PriceResultsOf(env))
    \/ PubdateReturn(PubdateResultsOf(env))
    \/ GincomeReturn(GincomeResultsOf(env))
    \/ CashflowReturn(CashflowResultsOf(env))
    \/ Crash
    \/ Wait
    \/ Score
    \/ Return

Spec == Init /\ [][Next]_vars

(***************************************************************************)
(* ValSpec: the valuation chain on many histories, PE series and prices.   *)
(* The other goroutines have not returned yet; the chain reads only its    *)
(* own fields and the local price, so it runs once all are started.        *)
(***************************************************************************)
ValBaseInfos ==
    {BaseInfoOf(F(12), F(20), F(25), "Bank"), BaseInfoOf(F(12), F(20), NoNewPrice, "Bank")}

ValInit == InitWith(ValBaseInfos, {"valuation"})

ValNext ==
    \/ ComputePEG
    \/ Launch
    \/ mainpc = "wait" /\ FinaReturn(FinaResultsOf(env))
    \/ mainpc = "wait" /\ PEReturn(PEResultsOf(env))
    \/ mainpc = "wait" /\ FinaLastYear
    \/ Crash

ValSpec == ValInit /\ [][ValNext]_vars

(***************************************************************************)
(* PegSpec: NewStock on many PE and growth values; every provider fails,   *)
(* once all goroutines are started                                         *)
(***************************************************************************)
PEValues == {F(12), F(0), F(-5), PInf}
Growth3YValues == {F(0), F(-3), F(20), Q(1, 2)}
PegBaseInfos == {BaseInfoOf(pe, g, F(25), "Bank") : pe \in PEValues, g \in Growth3YValues}

PegInit == InitWith(PegBaseInfos, {"down"})

PegNext ==
    \/ ComputePEG
    \/ Launch
    \/ mainpc = "wait" /\ \E u \in SimpleUnits : SimpleReturn(u, SimpleResultsOf(env))
    \/ mainpc = "wait" /\ FinaReturn(FinaResultsOf(env))
    \/ mainpc = "wait" /\ PriceReturn(PriceResultsOf(env))
    \/ mainpc = "wait" /\ PubdateReturn(PubdateResultsOf(env))
    \/ mainpc = "wait" /\ GincomeReturn(GincomeResultsOf(env))
    \/ mainpc = "wait" /\ CashflowReturn(CashflowResultsOf(env))
    \/ Wait
    \/ Score
    \/ Return

PegSpec == PegInit /\ [][PegNext]_vars

(***************************************************************************)
(* ScoreSpec: NewStock on many profiles, up to the scores.  The goroutines *)
(* return one after the other, the last one started first; only the        *)
(* fundamentals and cash-flow providers answer with data.                  *)
(***************************************************************************)
ScorePEValues == {F(5), F(10), F(17), F(20), F(30)}
ScoreGrowthValues == {F(0), F(20), F(50)}
ScoreBaseInfos ==
    {BaseInfoOf(pe, g, F(25), "Bank") : pe \in ScorePEValues, g \in ScoreGrowthValues}
    \cup {BaseInfoOf(F(30), F(0), F(25), ind) : ind \in {"Mining", "Software"}}

ScoreInit == InitWith(ScoreBaseInfos, {"scoring"})

UnitPos(u) == CHOOSE i \in 1..Len(UnitOrder) : UnitOrder[i] = u

\* every goroutine started after u has finished
Turn(u) == mainpc = "wait" /\ \A v \in Units : UnitPos(v) > UnitPos(u) => pc[v] = "done"

ScoreNext ==
    \/ ComputePEG
    \/ Launch
    \/ \E u \in SimpleUnits : Turn(u) /\ SimpleReturn(u, SimpleResultsOf(env))
    \/ Turn("fina") /\ FinaReturn(FinaResultsOf(env))
    \/ Turn("fina") /\ PEReturn(PEResultsOf(env))
    \/ Turn("price") /\ PriceReturn(PriceResultsOf(env))
    \/ Turn("pubdate") /\ PubdateReturn(PubdateResultsOf(env))
    \/ Turn("gincome") /\ GincomeReturn(GincomeResultsOf(env))
    \/ Turn("cashflow") /\ CashflowReturn(CashflowResultsOf(env))
    \/ Wait
    \/ Score
    \/ Return

ScoreSpec == ScoreInit /\ [][ScoreNext]_vars

(***************************************************************************)
(* PriceSpec: the valuation chain and the price-history goroutine, with    *)
(* and without a last traded price; the other goroutines have not returned *)
(***************************************************************************)
PriceBaseInfos ==
    {BaseInfoOf(F(12), F(20), p, "Bank") : p \in {F(25), F(10), NoNewPrice}}

PriceInit == InitWith(PriceBaseInfos, {"pricing"})

PriceNext ==
    \/ ComputePEG
    \/ Launch
    \/ FinaReturn(FinaResultsOf(env))
    \/ PEReturn(PEResultsOf(env))
    \/ FinaLastYear
    \/ PriceReturn(PriceResultsOf(env))

PriceSpec == PriceInit /\ [][PriceNext]_vars

(***************************************************************************)
(* Claims about the fan-out and the join (checked under Spec)              *)
(***************************************************************************)
\* wg.Wait has returned: calculateBuffettScore is about to run, runs or has run
ScoringStarted == mainpc \in {"score", "return", "returned"}

\* the Stock without its scores
FetchedPart(st) == [f \in DOMAIN st \ {"BuffettScore"} |-> st[f]]

\* C1: scoring starts only after each of the twelve goroutines has called wg.Done
\* (once), no goroutine changes a field of the Stock after scoring has started, and
\* the scores NewStock returns are those of the final field values.
C1_ScoringAfterJoin ==
    /\ [](ScoringStarted => \A u \in Units : dones[u] = 1 /\ pc[u] \in {"done", "panicked"})
    /\ [](ret.returned => s.BuffettScore = calculateBuffettScore(s))
    /\ [][ScoringStarted => FetchedPart(s') = FetchedPart(s)]_vars

C1_Witness ==
    /\ ret.returned
    /\ \A u \in Units : dones[u] = 1
    /\ s.RightPrice # F(0)
    /\ s.HistoricalPrice # <<>>
    /\ s.HistoricalCashflowList # <<>>

\* C2: no two goroutines access the same field of the Stock with one of the two
\* accesses being a write (so their write sets are pairwise disjoint, and none
\* reads what another writes).
C2_NoConflictingAccess ==
    \A a \in acc, b \in acc :
        (a[1] # b[1] /\ a[2] = b[2]) => (a[3] = "r" /\ b[3] = "r")

C2_Witness ==
    /\ \A u \in Units : pc[u] = "done"
    /\ {a[1] : a \in {x \in acc : x[3] = "w"}} = Units

\* the fields a provider operation's answer is stored in or computed into
FieldsOfQuery(q) ==
    CASE q = "QueryHistoricalFinaMainData" ->
           {"HistoricalFinaMainData", "HistoricalPEList", "RightPrice", "PriceSpace",
            "LastYearRightPrice"}
      [] q = "QueryHistoricalPEList" ->
           {"HistoricalPEList", "RightPrice", "PriceSpace", "LastYearRightPrice"}
      [] q = "QueryValuationStatus" -> {"ValuationMap"}
      [] q = "QueryHistoricalStockPrice" -> {"HistoricalPrice", "HistoricalVolatility"}
      [] q = "QueryCompanyProfile" -> {"CompanyProfile"}
      [] q = "QueryFinaPublishDateList" ->
           {"FinaAppointPublishDate", "FinaActualPublishDate", "FinaReportDate"}
      [] q = "QueryOrgRating" -> {"OrgRatingList"}
      [] q = "QueryProfitPredict" -> {"ProfitPredictList"}
      [] q = "QueryJiaZhiPingGu" -> {"JZPG"}
      [] q = "QueryFinaGincomeData" -> {"HistoricalGincomeList", "BYYSRatio", "FinaReportOpinion"}
      [] q = "QueryFinaCashflowData" ->
           {"HistoricalCashflowList", "NetcashOperate", "NetcashInvest", "NetcashFinance",
            "NetcashFree"}
      [] q = "QueryFreeHolders" -> {"FreeHoldersTop10"}
      [] q = "QueryMainMoneyNetInflows" -> {"MainMoneyNetInflows"}

IsZero(f) == s[f] = ZeroStock(s.BaseInfo)[f]

\* the fields of every failed query are still zero
FailedSectionsEmpty == \A q \in failed : \A f \in FieldsOfQuery(q) : IsZero(f)

\* C3: whatever the providers answer, NewStock returns a profile and a nil error,
\* and the fields of every failed query are zero in it.  (Stated so that a finite
\* run refutes it: the process never dies before NewStock has returned.)
C3_AlwaysReturnsProfile ==
    /\ crashed => ret.returned
    /\ ret.returned => ret.err = "nil" /\ FailedSectionsEmpty

\* the section a provider operation fills
SectionOf(q) ==
    CASE q = "QueryHistoricalFinaMainData" -> "HistoricalFinaMainData"
      [] q = "QueryHistoricalPEList" -> "HistoricalPEList"
      [] q = "QueryValuationStatus" -> "ValuationMap"
      [] q = "QueryHistoricalStockPrice" -> "HistoricalPrice"
      [] q = "QueryCompanyProfile" -> "CompanyProfile"
      [] q = "QueryFinaPublishDateList" -> "FinaReportDate"
      [] q = "QueryOrgRating" -> "OrgRatingList"
      [] q = "QueryProfitPredict" -> "ProfitPredictList"
      [] q = "QueryJiaZhiPingGu" -> "JZPG"
      [] q = "QueryFinaGincomeData" -> "HistoricalGincomeList"
      [] q = "QueryFinaCashflowData" -> "HistoricalCashflowList"
      [] q = "QueryFreeHolders" -> "FreeHoldersTop10"
      [] q = "QueryMainMoneyNetInflows" -> "MainMoneyNetInflows"

\* every query that was made and did not fail gave a non-empty result
OthersNonEmpty == \A q \in Queries : (calls[q] > 0 /\ q \notin failed) => ~IsZero(SectionOf(q))

\* C4: when some providers fail and every other one gives a non-empty result,
\* NewStock returns without an error a profile in which exactly the failed
\* providers' sections are empty.
C4_PartialFailure ==
    /\ crashed => ret.returned
    /\ (ret.returned /\ OthersNonEmpty) =>
           /\ ret.err = "nil"
           /\ \A q \in Queries : q \in failed <=> IsZero(SectionOf(q))

DerivedFields ==
    {"PEG", "RightPrice", "PriceSpace", "LastYearRightPrice", "HistoricalVolatility",
     "NetcashOperate", "NetcashInvest", "NetcashFinance", "NetcashFree", "BYYSRatio",
     "FinaReportOpinion"}

\* the goroutine that computes a derived field, and the query it computes it from
DerivedOwner(f) ==
    CASE f \in {"RightPrice", "PriceSpace", "LastYearRightPrice"} -> "fina"
      [] f = "HistoricalVolatility" -> "price"
      [] f \in {"NetcashOperate", "NetcashInvest", "NetcashFinance", "NetcashFree"} -> "cashflow"
      [] f \in {"BYYSRatio", "FinaReportOpinion"} -> "gincome"

DerivedSource(f) ==
    CASE DerivedOwner(f) = "fina" -> {"QueryHistoricalFinaMainData", "QueryHistoricalPEList"}
      [] OTHER -> {QueryOf(DerivedOwner(f))}

\* C5 as stated: no derived field is written before wg.Wait has returned.
C5_DerivedOnlyAfterJoin ==
    ~ScoringStarted => \A f \in DerivedFields : IsZero(f)

\* C5 amended: the derived fields are written before the join, never after it: PEG
\* by NewStock itself before it starts a goroutine, every other derived field by
\* the one goroutine that owns it, in a step of that goroutine before it calls
\* wg.Done, its queries having returned without error.
C5_DerivedWrittenBeforeJoin ==
    [][\A f \in DerivedFields :
          s'[f] # s[f] =>
             /\ ~ScoringStarted
             /\ IF f = "PEG"
                THEN mainpc = "peg" /\ launched = 0
                ELSE /\ mainpc \in {"spawn", "wait"}
                     /\ dones[DerivedOwner(f)] = 0
                     /\ pc[DerivedOwner(f)] \in {"query", "query2", "lastyear"}
                     /\ pc'[DerivedOwner(f)] # pc[DerivedOwner(f)]
                     /\ DerivedSource(f) \cap failed' = {}]_vars

C5_Witness ==
    /\ mainpc = "wait"
    /\ wg > 0
    /\ s.RightPrice # F(0)
    /\ s.LastYearRightPrice # F(0)
    /\ s.NetcashFree # F(0)
    /\ s.HistoricalVolatility # F(0)
    /\ s.BYYSRatio # F(0)

\* C6: NewStock does not get stuck: every goroutine calls wg.Done at most once, and
\* as long as NewStock has not returned some step is possible (a provider call
\* returns, the barrier opens, scoring runs or NewStock returns).
C6_NeverStuck ==
    /\ \A u \in Units : dones[u] <= 1
    /\ ret.returned \/ ENABLED Next

\* C7: each provider operation is invoked at most once in a call of NewStock,
\* also after it failed.
C7_EachQueryAtMostOnce == \A q \in Queries : calls[q] <= 1

C7_Witness ==
    /\ ret.returned
    /\ {"QueryFinaPublishDateList", "QueryHistoricalStockPrice", "QueryFinaGincomeData"} \subseteq failed
    /\ calls["QueryFinaGincomeData"] = 1
    /\ calls["QueryHistoricalStockPrice"] = 1

(***************************************************************************)
(* Claims about PEG (checked under PegSpec)                                *)
(***************************************************************************)
\* C8: once NewStock has computed PEG, and so when it returns, PEG is -1 when the
\* three-year growth rate is 0 or negative, PE / growth when the growth is positive
\* and the quotient finite, -1 when the quotient is not finite; PEG is finite.
C8_PEG ==
    mainpc # "peg" =>
        LET g == s.BaseInfo.NetprofitGrowthrate3Y
            q == FDiv(s.BaseInfo.PE, g)
        IN /\ FLe(g, F(0)) => s.PEG = F(-1)
           /\ (FGt(g, F(0)) /\ IsFin(q)) => s.PEG = q
           /\ (FGt(g, F(0)) /\ ~IsFin(q)) => s.PEG = F(-1)
           /\ IsFin(s.PEG)

C8_Witness ==
    /\ ret.returned
    /\ s.BaseInfo.PE = F(-5)
    /\ s.BaseInfo.NetprofitGrowthrate3Y = F(20)
    /\ s.PEG = Q(-1, 4)

(***************************************************************************)
(* Claims about the reasonable price (checked under ValSpec)               *)
(***************************************************************************)
IsAnnual(r) == r.ReportType = FinaReportTypeYear

\* the EPS of the annual reports of a history, newest first
AnnualEPS(hf) ==
    LET a == SelectSeq(hf, IsAnnual)
    IN [i \in 1..Len(a) |-> a[i].Epsjb]

\* line 262 has written RightPrice and the validation has not run yet
PriceWritten == pc["fina"] = "lastyear"

\* C9: the reasonable price NewStock writes before validation is
\* median PE x base EPS x (1 + min(growth, 50)/100) x multiplier, the base EPS being
\* the mean of the three most recent annual EPS values when there are three, and
\* the most recent annual EPS when there are fewer.
C9_ReasonablePrice ==
    PriceWritten =>
        LET hf == s.HistoricalFinaMainData
            a == AnnualEPS(hf)
            base == IF Len(a) >= 3
                    THEN FDiv(FAdd(FAdd(a[1], a[2]), a[3]), F(3))
                    ELSE a[1]
            applied == FMin(thisYearAvgRevIncrRatio(hf), F(50))
        IN /\ FLe(applied, F(50))
           /\ s.RightPrice =
                 FMul(FMul(FMul(GetMidValue(s.HistoricalPEList), base),
                           FAdd(F(1), FDiv(applied, F(100)))),
                      explosiveGrowthAdjustment(hf))

C9_Witness ==
    /\ PriceWritten
    /\ AnnualEPS(s.HistoricalFinaMainData) = <<F(2), F(-1), Q(4, 5), F(1)>>
    /\ thisYearAvgRevIncrRatio(s.HistoricalFinaMainData) = F(120)
    /\ s.HistoricalPEList = <<F(30), F(10), F(14)>>
    /\ s.RightPrice = Q(63, 5)

\* the multiplier as the claim words it: 0.7 when the latest annual EPS is more
\* than 100% above the one before, 1 otherwise
DampeningOf(a) ==
    IF Len(a) >= 2 /\ FGt(FMul(FDiv(FSub(a[1], a[2]), a[2]), F(100)), F(100))
    THEN Q(7, 10) ELSE F(1)

\* the result of the formula without the multiplier
Undampened(hf, peList) ==
    FMul(GetMidValue(peList),
         FMul(baseEPS(hf), FAdd(F(1), FDiv(adjustedGrowthRatio(hf), F(100)))))

\* the valuation chain has run to its end
ChainFinished ==
    /\ pc["fina"] = "done"
    /\ s.HistoricalPEList # <<>>
    /\ "QueryHistoricalPEList" \notin failed

FormulaResult(hf, peList) == FMul(Undampened(hf, peList), DampeningOf(AnnualEPS(hf)))

\* non-finite or non-positive
Unusable(x) == ~IsFin(x) \/ FLe(x, F(0))

\* the goroutine has assigned RightPrice
RightPriceAssigned == <<"fina", "RightPrice", "w">> \in acc

\* C11: a formula result that is not finite or not positive is discarded: the
\* reasonable price becomes median PE x most recent annual EPS and the price gap is
\* computed again from it; a finite positive result is kept.  The valuation
\* goroutine never ends leaving a discarded result in RightPrice.
C11_ValidationFallback ==
    LET hf == s.HistoricalFinaMainData
        written == FormulaResult(hf, s.HistoricalPEList)
    IN /\ ChainFinished =>
             /\ s.RightPrice =
                   IF Unusable(written)
                   THEN FMul(GetMidValue(s.HistoricalPEList), AnnualEPS(hf)[1])
                   ELSE written
             /\ s.PriceSpace = FMul(FDiv(FSub(s.RightPrice, price), price), F(100))
       /\ (RightPriceAssigned /\ pc["fina"] = "panicked") => ~Unusable(s.RightPrice)

CurrentPrice ==
    IF s.BaseInfo.NewPrice # NoNewPrice THEN s.BaseInfo.NewPrice
    ELSE IF s.HistoricalPrice # <<>> THEN s.HistoricalPrice[Len(s.HistoricalPrice)]
    ELSE F(-1)

\* C12: once the price gap is written it is (reasonable price - current price) /
\* current price x 100, the current price being the last traded price, or without
\* one the last price of the fetched history, and -1 only without a history.
C12_PriceGap ==
    (RightPriceAssigned /\ pc["price"] = "done") =>
        s.PriceSpace = FMul(FDiv(FSub(s.RightPrice, CurrentPrice), CurrentPrice), F(100))

(***************************************************************************)
(* Claims about the scores (checked under ScoreSpec)                       *)
(***************************************************************************)
\* calculateBuffettScore has run and its result is stored
Scored == mainpc \in {"return", "returned"}

Within(x, lo, hi) == IsFin(x) /\ FGe(x, F(lo)) /\ FLe(x, F(hi))

\* C14: every sub-score is within its declared range.
C14_SubScoreRanges ==
    Scored =>
        LET b == s.BuffettScore
        IN /\ Within(b.ROEScore, 0, 20)
           /\ Within(b.CashFlowScore, 0, 15)
           /\ Within(b.ProfitGrowthScore, 0, 15)
           /\ Within(b.DebtRatioScore, 0, 10)
           /\ Within(b.MoatScore, 0, 10)
           /\ Within(b.ManagementScore, 0, 10)
           /\ Within(b.ValuationScore, 0, 15)
           /\ Within(b.RDScore, 0, 5)
           /\ Within(b.DividendScore, 0, 5)
           /\ Within(b.RepurchaseScore, 0, 5)

\* C15: the total is the sum of the ten sub-scores stored with it, and the scores
\* stored on the profile are the ones calculateBuffettScore returns for it.
C15_TotalIsSum ==
    Scored =>
        LET b == s.BuffettScore
        IN /\ b.TotalScore =
                 FAdd(FAdd(FAdd(FAdd(FAdd(FAdd(FAdd(FAdd(FAdd(b.ROEScore, b.CashFlowScore),
                      b.ProfitGrowthScore), b.DebtRatioScore), b.MoatScore),
                      b.ManagementScore), b.ValuationScore), b.RDScore), b.DividendScore),
                      b.RepurchaseScore)
           /\ s.BuffettScore = calculateBuffettScore(s)

C15_Witness ==
    /\ ret.returned
    /\ s.BuffettScore.ROEScore = F(16)
    /\ s.BuffettScore.ProfitGrowthScore = Q(24, 5)
    /\ s.BuffettScore.CashFlowScore = F(15)
    /\ s.BuffettScore.ValuationScore = F(8)
    /\ s.BuffettScore.TotalScore = Q(793, 10)

\* C16: the total score is within [0, 100].
C16_TotalRange == Scored => Within(s.BuffettScore.TotalScore, 0, 100)

\* the ROE and the net profits of the annual reports of a history, newest first
AnnualROE(hf) ==
    LET a == SelectSeq(hf, IsAnnual)
    IN [i \in 1..Len(a) |-> a[i].Roejq]
AnnualProfit(hf) ==
    LET a == SelectSeq(hf, IsAnnual)
    IN [i \in 1..Len(a) |-> a[i].Netprofit]

\* C17: with fewer than 5 annual ROE values the profitability score is 0;
\* otherwise it is 20 for a mean of at least 20, 15 for a mean of at least 15 and
\* mean/15 x 15 below, times 0.8 exactly when the coefficient of variation
\* (standard deviation / mean) of the 5 values exceeds 0.3; five values of 25
\* score 20.
C17_ROEScore ==
    Scored =>
        LET r == AnnualROE(s.HistoricalFinaMainData)
            mean == FDiv(FAdd(FAdd(FAdd(FAdd(r[1], r[2]), r[3]), r[4]), r[5]), F(5))
            sq(x) == FMul(x, x)
            var == FDiv(FAdd(FAdd(FAdd(FAdd(sq(FSub(r[1], mean)), sq(FSub(r[2], mean))),
                        sq(FSub(r[3], mean))), sq(FSub(r[4], mean))), sq(FSub(r[5], mean))),
                        F(5))
            cvExceeds == \/ FGt(mean, F(0)) /\ FGt(var, FMul(Q(9, 100), sq(mean)))
                         \/ FEq(mean, F(0)) /\ FGt(var, F(0))
            base == IF FGe(mean, F(20)) THEN F(20)
                    ELSE IF FGe(mean, F(15)) THEN F(15)
                    ELSE FMul(FDiv(mean, F(15)), F(15))
        IN /\ Len(r) < 5 => s.BuffettScore.ROEScore = F(0)
           /\ Len(r) >= 5 =>
                 s.BuffettScore.ROEScore = IF cvExceeds THEN FMul(base, Q(4, 5)) ELSE base
           /\ (Len(r) >= 5 /\ \A i \in 1..5 : r[i] = F(25)) => s.BuffettScore.ROEScore = F(20)

C17_Witness ==
    /\ Scored
    /\ Len(AnnualROE(s.HistoricalFinaMainData)) >= 5
    /\ SubSeq(AnnualROE(s.HistoricalFinaMainData), 1, 5) = <<F(40), F(5), F(40), F(5), F(40)>>
    /\ s.BuffettScore.ROEScore = F(16)

\* C18: with fewer than 5 annual net profits the profit-growth score is 0;
\* otherwise it is 3 x the number of year-over-year increases among the 5 most
\* recent annual net profits, times 0.8 exactly when the sum of the absolute
\* differences of consecutive growth rates exceeds 0.5.
C18_ProfitGrowthScore ==
    Scored =>
        LET p == AnnualProfit(s.HistoricalFinaMainData)
            increases == Cardinality({i \in 1..4 : FGt(p[i], p[i + 1])})
            g(i) == FDiv(FSub(p[i], p[i + 1]), FAbs(p[i + 1]))
            spread == FAdd(FAdd(FAbs(FSub(g(2), g(1))), FAbs(FSub(g(3), g(2)))),
                           FAbs(FSub(g(4), g(3))))
        IN /\ Len(p) < 5 => s.BuffettScore.ProfitGrowthScore = F(0)
           /\ Len(p) >= 5 =>
                 s.BuffettScore.ProfitGrowthScore =
                    IF FGt(spread, Q(1, 2)) THEN FMul(F(3 * increases), Q(4, 5))
                    ELSE F(3 * increases)

C18_Witness ==
    /\ Scored
    /\ Len(AnnualProfit(s.HistoricalFinaMainData)) >= 5
    /\ SubSeq(AnnualProfit(s.HistoricalFinaMainData), 1, 5) = <<F(100), F(10), F(20), F(5), F(8)>>
    /\ s.BuffettScore.ProfitGrowthScore = Q(24, 5)

\* the score of the PE alone
PETier(pe) ==
    IF FLt(pe, F(10)) THEN F(15)
    ELSE IF FLt(pe, F(15)) THEN F(12)
    ELSE IF FLt(pe, F(20)) THEN F(8)
    ELSE IF FLt(pe, F(30)) THEN F(5)
    ELSE F(0)

C20_ManagementBranches ==
    Scored =>
        /\ Len(s.HistoricalFinaMainData) >= 3 => s.BuffettScore.ManagementScore = Q(15, 2)
        /\ Len(s.HistoricalFinaMainData) < 3 => FLt(s.BuffettScore.ManagementScore, Q(15, 2))

(***************************************************************************)
(* SortSpec: StockList.SortByROE and StockList.SortByPriceSpace.           *)
(* sort.Slice orders the slice by the less function and does not say in    *)
(* which order it leaves elements neither of which is less than the other: *)
(* every such order is a result.                                           *)
(***************************************************************************)
\* the variables of one NewStock call
callvars == <<s, price, mainpc, launched, wg, pc, dones, calls, acc, crashed, ret, env, failed>>

\* NewStock is not running
NoCall ==
    /\ env = "down"
    /\ s = ZeroStock(BaseInfoOf(F(12), F(20), F(25), "Bank"))
    /\ price = F(0)
    /\ mainpc = "peg"
    /\ launched = 0
    /\ wg = 0
    /\ pc = [u \in Units |-> "idle"]
    /\ dones = [u \in Units |-> 0]
    /\ calls = [q \in Queries |-> 0]
    /\ acc = {}
    /\ crashed = FALSE
    /\ ret = NotReturned
    /\ failed = {}

MaxList == 3
RoeWeights == {F(10), F(20)}
PriceSpaces == {F(-5), F(30)}

\* the fields of a Stock of a list that the sorts read, and its code
ListStock(code, roeWeight, priceSpace) ==
    [Secucode |-> code, BaseInfo |-> [RoeWeight |-> roeWeight], PriceSpace |-> priceSpace]

StockLists ==
    UNION {{[i \in 1..n |-> ListStock(i, r[i], p[i])] :
               r \in [1..n -> RoeWeights], p \in [1..n -> PriceSpaces]} : n \in 0..MaxList}

\* the less functions of lines 122-124 and 129-131
lessROE(a, b) == FGt(a.BaseInfo.RoeWeight, b.BaseInfo.RoeWeight)
lessPriceSpace(a, b) == FGt(a.PriceSpace, b.PriceSpace)

\* the rearrangements of l
Rearranged(l) ==
    {[i \in 1..Len(l) |-> l[p[i]]] :
        p \in {q \in [1..Len(l) -> 1..Len(l)] : \A i, j \in 1..Len(l) : i # j => q[i] # q[j]}}

\* sort.Slice(l, less) with less by ROE or by price space
SortSlice(l, byROE) ==
    {m \in Rearranged(l) :
        \A i, j \in 1..Len(m) :
            i < j => ~(IF byROE THEN lessROE(m[j], m[i]) ELSE lessPriceSpace(m[j], m[i]))}

SortByROE ==
    /\ stockList' \in SortSlice(stockList, TRUE)
    /\ unsorted' = stockList
    /\ sortedBy' = "ROE"
    /\ UNCHANGED <<callvars, req, resp, target>>

SortByPriceSpace ==
    /\ stockList' \in SortSlice(stockList, FALSE)
    /\ unsorted' = stockList
    /\ sortedBy' = "PriceSpace"
    /\ UNCHANGED <<callvars, req, resp, target>>

SortInit ==
    /\ NoCall
    /\ stockList \in StockLists
    /\ unsorted = <<>>
    /\ sortedBy = "none"
    /\ req = NoRequest
    /\ resp = NoResponse
    /\ target = NoTarget

SortNext ==
    \/ SortByROE
    \/ SortByPriceSpace

SortSpec == SortInit /\ [][SortNext]_vars

(***************************************************************************)
(* Claims about the sorts (checked under SortSpec)                         *)
(***************************************************************************)
\* the key of the last sort
SortKey(st) == IF sortedBy = "ROE" THEN st.BaseInfo.RoeWeight ELSE st.PriceSpace

\* where the Stock with this code is in l
PlaceIn(l, code) == CHOOSE i \in 1..Len(l) : l[i].Secucode = code

\* C21: after SortByROE or SortByPriceSpace the list is a rearrangement of the
\* list before the call, in non-increasing order of the key, and two profiles
\* with equal keys are in the order they had before the call.
C21_StableSort ==
    sortedBy # "none" =>
        /\ stockList \in Rearranged(unsorted)
        /\ \A i, j \in 1..Len(stockList) :
               i < j => FGe(SortKey(stockList[i]), SortKey(stockList[j]))
        /\ \A i, j \in 1..Len(unsorted) :
               (i < j /\ FEq(SortKey(unsorted[i]), SortKey(unsorted[j]))) =>
                   PlaceIn(stockList, unsorted[i].Secucode) < PlaceIn(stockList, unsorted[j].Secucode)

\* the part of C21 without the order of equal keys
SortedRearrangement ==
    sortedBy # "none" =>
        /\ stockList \in Rearranged(unsorted)
        /\ \A i, j \in 1..Len(stockList) :
               i < j => FGe(SortKey(stockList[i]), SortKey(stockList[j]))

(***************************************************************************)
(* Claims about the order inside the valuation chain (checked under        *)
(* ValSpec)                                                                *)
(***************************************************************************)
\* the goroutine of the chain has returned or died
ChainEnded == pc["fina"] \in {"done", "panicked"}

\* the chain ended before line 288
ChainFailed ==
    /\ ChainEnded
    /\ \/ pc["fina"] = "panicked"
       \/ <<"fina", "LastYearRightPrice", "w">> \notin acc

\* C22: the PE query is issued only after the fundamentals query returned a
\* non-empty history; RightPrice is computed only after both results are stored
\* and the PE median exists; wg.Done is called only when the chain has ended; and
\* when a step of the chain failed, RightPrice, PriceSpace and LastYearRightPrice
\* are all 0.
C22_ChainOrdered ==
    /\ calls["QueryHistoricalPEList"] >= 1 =>
          /\ calls["QueryHistoricalFinaMainData"] = 1
          /\ "QueryHistoricalFinaMainData" \notin failed
          /\ Len(s.HistoricalFinaMainData) > 0
    /\ <<"fina", "RightPrice", "w">> \in acc =>
          /\ Len(s.HistoricalFinaMainData) > 0
          /\ <<"fina", "HistoricalPEList", "w">> \in acc
          /\ ~GetMidValueErr(s.HistoricalPEList)
    /\ dones["fina"] >= 1 => ChainEnded
    /\ ChainFailed =>
          /\ s.RightPrice = F(0)
          /\ s.PriceSpace = F(0)
          /\ s.LastYearRightPrice = F(0)

\* C22 for the chains that end by a return
ChainOrderedOnReturn ==
    /\ calls["QueryHistoricalPEList"] >= 1 =>
          /\ calls["QueryHistoricalFinaMainData"] = 1
          /\ "QueryHistoricalFinaMainData" \notin failed
          /\ Len(s.HistoricalFinaMainData) > 0
    /\ <<"fina", "RightPrice", "w">> \in acc =>
          /\ Len(s.HistoricalFinaMainData) > 0
          /\ <<"fina", "HistoricalPEList", "w">> \in acc
          /\ ~GetMidValueErr(s.HistoricalPEList)
    /\ dones["fina"] >= 1 => ChainEnded
    /\ (ChainFailed /\ pc["fina"] = "done") =>
          /\ s.RightPrice = F(0)
          /\ s.PriceSpace = F(0)
          /\ s.LastYearRightPrice = F(0)

\* the chain has reached the valuation computation (line 225)
ValuationStarted ==
    /\ <<"fina", "HistoricalPEList", "w">> \in acc
    /\ ~GetMidValueErr(s.HistoricalPEList)

\* C23: the valuation computation never reads the EPS of a missing annual
\* report: the goroutine does not die of a nil report, the report read at line
\* 238, 271 or 285 exists, and after the shift of the window both annual reports
\* exist.
C23_ReportsExist ==
    /\ pc["fina"] # "panicked"
    /\ ValuationStarted =>
          LET hf == s.HistoricalFinaMainData
          IN /\ Len(epsHistory(hf)) < 3 =>
                   /\ lastYearReport(hf) # NilReport
                   /\ beforeLastYearReport(hf) # NilReport
             /\ WindowShifted(hf) =>
                   /\ lastYearReport(hf) # NilReport
                   /\ beforeLastYearReport(hf) # NilReport

(***************************************************************************)
(* PosSpec: position sizing.  CalculatePositionHandler answers a request;  *)
(* PositionDeviationHandler calls calculateTargetPosition for a holding.   *)
(* Both are applied to the same PE, growth, expect, tech and Buffett score. *)
(***************************************************************************)
PosPEValues == {F(0), F(5), F(7), F(10), F(30), F(-5)}
PosGrowthValues == {F(0), F(10), F(-10)}
PosExpectValues == {0, 1, 3, 5, 9}
PosTechValues == {0, 1, 3, -4}
PosScoreValues == {F(0), F(50), Q(205, 2), F(-400)}
PosPriceValues == {F(0), F(33), Q(1, 2), F(-3)}

\* the numbers of a request body; a field that is absent has its zero value
Requests ==
    [given : {TRUE}, PE : PosPEValues, Growth : PosGrowthValues, Expect : PosExpectValues,
     Tech : PosTechValues, BuffettScore : PosScoreValues, CurrentPrice : PosPriceValues]

\* the two copies of CalculatePositionHandler in the sources
HandlerFiles == {"routes/your_new_page.go", "unnamed/part_001"}

\* binding:"required" rejects a field that is absent or has its zero value
\* (StockName is present); Tech is required in part_001 only
BindErr(file, r) ==
    \/ FEq(r.PE, F(0))
    \/ FEq(r.Growth, F(0))
    \/ r.Expect = 0
    \/ file = "unnamed/part_001" /\ r.Tech = 0

pegScoreOf(peg) ==
    IF FLe(peg, Q(1, 2)) THEN F(1)
    ELSE IF FLe(peg, Q(9, 10)) THEN FDiv(FSub(Q(9, 10), peg), Q(4, 10))
    ELSE F(0)

\* 0.4*pegScore + 0.2*expectScore + 0.2*techScore + 0.2*buffettScoreNormalized
totalScoreOf(peg, expect, techScore, score) ==
    LET expectScore == FDiv(F(expect - 1), F(4))
        buffettScore == IF FEq(score, F(0)) THEN F(50) ELSE score
        buffettScoreNormalized == FDiv(buffettScore, F(100))
    IN FAdd(FAdd(FAdd(FMul(Q(4, 10), pegScoreOf(peg)), FMul(Q(2, 10), expectScore)),
                 FMul(Q(2, 10), techScore)), FMul(Q(2, 10), buffettScoreNormalized))

\* amount := 3 + 17*totalScore, kept within [3, 20], and 0 when PEG > 1
finalAmountOf(peg, totalScore) ==
    LET amount == FAdd(F(3), FMul(F(17), totalScore))
        clamped == IF FLt(amount, F(3)) THEN F(3)
                   ELSE IF FGt(amount, F(20)) THEN F(20)
                   ELSE amount
    IN IF FGt(peg, F(1)) THEN F(0) ELSE clamped

\* int(x) of a non-negative x
IntOf(x) == x.n \div x.d

\* shareCount: whole lots of 100 shares that finalAmount (in 10000 yuan) buys
shareCountOf(finalAmount, currentPrice) ==
    IF FGt(currentPrice, F(0)) /\ FGt(finalAmount, F(0))
    THEN (IntOf(FDiv(FMul(finalAmount, F(10000)), currentPrice)) \div 100) * 100
    ELSE 0

\* techScore: (tech-1)/2 with tech 0 read as 2 in your_new_page.go, tech/3 in part_001
handlerTechScore(file, tech) ==
    IF file = "unnamed/part_001" THEN FDiv(F(tech), F(3))
    ELSE FDiv(F((IF tech = 0 THEN 2 ELSE tech) - 1), F(2))

\* CalculatePositionHandler: the JSON it sends
CalculatePositionResult(file, r) ==
    IF BindErr(file, r) THEN [sent |-> TRUE, file |-> file, Error |-> "bind"]
    ELSE IF FEq(r.Growth, F(0)) THEN [sent |-> TRUE, file |-> file, Error |-> "growth"]
    ELSE LET peg == FDiv(r.PE, r.Growth)
             totalScore == totalScoreOf(peg, r.Expect, handlerTechScore(file, r.Tech),
                                        r.BuffettScore)
             finalAmount == finalAmountOf(peg, totalScore)
         IN [sent |-> TRUE, file |-> file, Error |-> "", peg |-> peg,
             total_score |-> totalScore, final_amount |-> finalAmount,
             is_peg_high |-> FGt(peg, F(1)),
             share_count |-> shareCountOf(finalAmount, r.CurrentPrice)]

CalculatePositionHandler(file) ==
    /\ req.given
    /\ ~resp.sent
    /\ resp' = CalculatePositionResult(file, req)
    /\ UNCHANGED <<callvars, stockList, unsorted, sortedBy, req, target>>

\* the fields of a Stock that calculateTargetPosition reads
PositionStock(pe, growth, totalScore) ==
    [BaseInfo |-> [PE |-> pe, NetprofitYoyRatio |-> growth],
     BuffettScore |-> [TotalScore |-> totalScore]]

calculateTargetPosition(stock, expect, tech) ==
    LET pe == stock.BaseInfo.PE
        growth == stock.BaseInfo.NetprofitYoyRatio
        peg == FDiv(pe, growth)
    IN IF FEq(growth, F(0)) THEN F(0)
       ELSE finalAmountOf(peg, totalScoreOf(peg, expect, FDiv(F(tech - 1), F(2)),
                                            stock.BuffettScore.TotalScore))

\* PositionDeviationHandler, lines 318-327: the target amount of one holding
TargetAmount ==
    /\ req.given
    /\ ~target.called
    /\ LET expect == IF req.Expect = 0 THEN 3 ELSE req.Expect
           tech == IF req.Tech = 0 THEN 2 ELSE req.Tech
       IN target' = [called |-> TRUE,
                     amount |-> calculateTargetPosition(
                                    PositionStock(req.PE, req.Growth, req.BuffettScore),
                                    expect, tech)]
    /\ UNCHANGED <<callvars, stockList, unsorted, sortedBy, req, resp>>

PosInit ==
    /\ NoCall
    /\ stockList = <<>>
    /\ unsorted = <<>>
    /\ sortedBy = "none"
    /\ req \in Requests
    /\ resp = NoResponse
    /\ target = NoTarget

PosNext ==
    \/ \E file \in HandlerFiles : CalculatePositionHandler(file)
    \/ TargetAmount

PosSpec == PosInit /\ [][PosNext]_vars

(***************************************************************************)
(* Claims about position sizing (checked under PosSpec)                    *)
(***************************************************************************)
\* PE / growth of the request
RequestPEG == FDiv(req.PE, req.Growth)

\* the handler sent a result
Sized == resp.sent /\ resp.Error = ""

\* the amount and the share count of a result
AmountAndShares ==
    Sized =>
        /\ FGt(RequestPEG, F(1)) => resp.final_amount = F(0)
        /\ ~FGt(RequestPEG, F(1)) =>
              FGe(resp.final_amount, F(3)) /\ FLe(resp.final_amount, F(20))
        /\ resp.share_count >= 0
        /\ resp.share_count % 100 = 0
        /\ resp.share_count > 0 =>
              FLe(FMul(F(resp.share_count), req.CurrentPrice),
                  FMul(resp.final_amount, F(10000)))

\* C24: a request with non-zero growth gets an amount, which is 0 when PEG > 1
\* and within [3, 20] otherwise; the share count is a non-negative multiple of
\* 100 that the amount pays for; calculateTargetPosition returns the amount of
\* the handler for the same inputs, and 0 where the growth is 0.
C24_PositionSizing ==
    /\ (resp.sent /\ ~FEq(req.Growth, F(0))) => Sized
    /\ AmountAndShares
    /\ (resp.sent /\ target.called) =>
          IF FEq(req.Growth, F(0))
          THEN ~Sized /\ target.amount = F(0)
          ELSE Sized /\ resp.final_amount = target.amount

\* C24 for the requests that pass the binding, and for the handler of
\* your_new_page.go in its last part
PositionSizingOfBound ==
    /\ (resp.sent /\ ~BindErr(resp.file, req)) => Sized
    /\ AmountAndShares
    /\ (resp.sent /\ target.called) =>
          IF FEq(req.Growth, F(0))
          THEN ~Sized /\ target.amount = F(0)
          ELSE (~BindErr(resp.file, req) /\ resp.file = "routes/your_new_page.go") =>
                  Sized /\ resp.final_amount = target.amount

\* C24 on the requests that bind: violated by the handler of part_001 alone
PositionSizingSameAmount ==
    (Sized /\ target.called) => resp.final_amount = target.amount

====
